---- MODULE Spec2Model ----
\* Model of dockerlogredirect: the capture workers (get_docker_log), the
\* supervisor pass over the configured containers (create_docker_log_threads)
\* and the hourly driver loop (main / __main__).
\*
\* Python strings are modelled as sequences of one-character strings, so that
\* the substring tests of the code ("x in y"), str.rstrip and str.replace are
\* computed and not assumed.
EXTENDS Integers, Sequences, FiniteSets, TLC

\* ---------------------------------------------------------------- bounds
\* Number of passes of the driver loop that the model follows.
MaxCycles == 2
\* Total number of lines the subprocesses emit during one behaviour: with two
\* containers configured (Spec), and with one container configured (SpecCapture).
MaxLines == 1
MaxCaptureLines == 3
MaxOverlapLines == 2

\* ------------------------------------------------------- string helpers
\* Python: p in s  (substring test on str).
IsSubstring_nonempty(p, s) ==
    /\ p # <<>>
    /\ \E k \in 0..(Len(s) - Len(p)) : SubSeq(s, k + 1, k + Len(p)) = p

IsSubstring(p, s) ==
    \E k \in 0..(Len(s) - Len(p)) : SubSeq(s, k + 1, k + Len(p)) = p

\* Characters str.rstrip() removes.
Whitespace == {" ", "\n", "\t"}

\* Python: line.rstrip()
RECURSIVE rstrip(_)
rstrip(line) ==
    IF line # <<>> /\ line[Len(line)] \in Whitespace
    THEN rstrip(SubSeq(line, 1, Len(line) - 1))
    ELSE line

\* Python: container_name.replace(" ", "_") replaces every occurrence.
replace_spaces_first(s) ==
    [k \in 1..Len(s) |->
        IF s[k] = " " /\ (\A j \in 1..(k - 1) : s[j] # " ") THEN "_" ELSE s[k]]

replace_spaces_none(s) == s

replace_spaces(s) ==
    [k \in 1..Len(s) |-> IF s[k] = " " THEN "_" ELSE s[k]]

\* Python: f'{container_name}_thread'
ThreadSuffix == <<"_", "t", "h", "r", "e", "a", "d">>

thread_name_of(container_name) == replace_spaces(container_name) \o ThreadSuffix

\* Decimal digits of a small thread ident.
Digit(n) ==
    <<"0", "1", "2", "3", "4", "5", "6", "7", "8", "9">>[(n % 10) + 1]

RECURSIVE str_int(_)
str_int(n) == IF n < 10 THEN <<Digit(n)>> ELSE str_int(n \div 10) \o <<Digit(n)>>

\* repr of the main thread: <_MainThread(MainThread, started 0)>
MainThreadRepr ==
    <<"<", "_", "M", "a", "i", "n", "T", "h", "r", "e", "a", "d", "(",
      "M", "a", "i", "n", "T", "h", "r", "e", "a", "d", ",", " ",
      "s", "t", "a", "r", "t", "e", "d", " ", "0", ")", ">">>

\* repr of a started worker thread: <Thread(NAME, started daemon IDENT)>
ThreadRepr(t) ==
    <<"<", "T", "h", "r", "e", "a", "d", "(">> \o t.name
      \o <<",", " ", "s", "t", "a", "r", "t", "e", "d", " ",
           "d", "a", "e", "m", "o", "n", " ">>
      \o str_int(t.ident) \o <<")", ">">>

RECURSIVE JoinReprs(_)
JoinReprs(ths) ==
    IF ths = <<>> THEN <<>>
    ELSE <<",", " ">> \o ThreadRepr(Head(ths)) \o JoinReprs(Tail(ths))

\* Python: str(threading.enumerate()) -- the list holds the live threads only.
str_enumerate(ths) == <<"[">> \o MainThreadRepr \o JoinReprs(ths) \o <<"]">>

\* ------------------------------------------------------------ constants
\* Python None in an error slot, and an error value. An error message is kept
\* as the set of the marker phrases it contains.
PyNone == [none |-> TRUE, phrases |-> {}]
ErrorValue(ps) == [none |-> FALSE, phrases |-> ps]

\* exclude setting of a container: a str, a list of str, or None (key absent).
ExcludeStr(s) == [kind |-> "str", str |-> s, list |-> <<>>]
ExcludeList(l) == [kind |-> "list", str |-> <<>>, list |-> l]
ExcludeNone == [kind |-> "None", str |-> <<>>, list |-> <<>>]

\* Container names used by the configurations below.
NameApp == <<"a", "p", "p">>
NameMyApp == <<"m", "y", "a", "p", "p">>
NameMySpApp == <<"m", "y", " ", "a", "p", "p">>
NameMyUsApp == <<"m", "y", "_", "a", "p", "p">>
NameWeb == <<"w", "e", "b">>

\* Configurations: docker_container_loggers, a list of
\* [container_name, container_logger, exclude] (the logger of entry k is
\* sinks[k]), whether the docker executable can be started for an entry, and
\* the two alert settings of the YAML file.
Entry(name, exclude) == [container_name |-> name, exclude |-> exclude]

\* Two containers (Spec): a name contained in another name, and unrelated names.
Configs ==
    { [list |-> << Entry(NameApp, ExcludeList(<< <<"a">>, <<"c">> >>)),
                   Entry(NameMyApp, ExcludeStr(<<"b">>)) >>,
       env |-> <<"ok", "ok">>, email_alerts |-> TRUE, alert_program_errors |-> TRUE],
      [list |-> << Entry(NameApp, ExcludeStr(<< >>)),
                   Entry(NameWeb, ExcludeList(<< <<"b", " ">>, <<"c">> >>)) >>,
       env |-> <<"not_found", "ok">>, email_alerts |-> TRUE, alert_program_errors |-> FALSE],
      [list |-> << Entry(NameWeb, ExcludeStr(<<"c">>)),
                   Entry(NameApp, ExcludeNone) >>,
       env |-> <<"ok", "not_found">>, email_alerts |-> FALSE, alert_program_errors |-> TRUE] }

\* Two containers whose names differ only by space/underscore (SpecCollide).
CollideConfigs ==
    { [list |-> << Entry(NameMySpApp, ExcludeNone),
                   Entry(NameMyUsApp, ExcludeList(<< >>)) >>,
       env |-> <<"ok", "ok">>, email_alerts |-> TRUE, alert_program_errors |-> FALSE] }

\* One container, its log unfiltered (SpecOverlap).
OverlapConfigs ==
    { [list |-> << Entry(NameApp, ExcludeList(<< >>)) >>, env |-> <<"ok", "ok">>,
       email_alerts |-> TRUE, alert_program_errors |-> TRUE] }

\* One container (SpecCapture), with every shape of exclude.
CaptureExcludes ==
    { ExcludeNone, ExcludeStr(<< >>), ExcludeStr(<<"b">>), ExcludeStr(<<"b", " ">>),
      ExcludeList(<< >>), ExcludeList(<< <<"c">> >>),
      ExcludeList(<< <<"a">>, <<"c">> >>), ExcludeList(<< <<"x">>, <<"b", " ">> >>),
      ExcludeList(<< <<"x">>, << >> >>) }

CaptureConfigs ==
    { [list |-> << Entry(NameApp, e) >>, env |-> <<v, "ok">>,
       email_alerts |-> TRUE, alert_program_errors |-> TRUE] :
        e \in CaptureExcludes, v \in {"ok", "not_found"} }

\* Raw lines a subprocess can emit (as readline returns them).
RawLines ==
    { <<"a", "b", "\n">>, <<"b", " ", "\n">>, <<"c", "\n">> }

\* The line the subprocesses emit where two containers are configured (Spec):
\* what the filters do with the lines is followed in SpecCapture.
SupervisorLines == { <<"b", " ", "\n">> }

\* Marker phrases of error messages.
PhraseOriginating == "Originating error on line"
PhraseSubProcess == "The sub-process"
PhraseTimeout == "timeout has reached"
PhraseWinNotFound == "The system cannot find the file specified"
PhrasePosixNotFound == "No such file or directory"
PhraseUnbound == "local variable 'processing_args' referenced before assignment"

\* ---------------------------------------------------------------- state
VARIABLES
    docker_container_loggers, \* the configured list handed to every pass
    popen_env,                \* per entry: can the subprocess be started
    threads,                  \* live threads (threading.enumerate order), without MainThread
    sinks,                    \* per entry: lines written to its container_logger
    terminal,                 \* per entry: how its last worker ended
    next_ident,               \* ident of the next thread
    lines_read,               \* lines read so far by all workers
    pc,                       \* position of the main thread
    cycle,                    \* number of the current pass of the driver loop
    idx,                      \* position of the for loop of create_docker_log_threads
    thread_start_tracker,     \* the list being built by the current pass
    thread_status,            \* the list the last completed pass returned to main
    hist,                     \* per entry, what the current pass observed and did
    email_alerts,             \* setting general.email_alerts
    alert_program_errors,     \* setting general.alert_program_errors
    index,                    \* position of the for loop of main over thread_status
    sent,                     \* the emails send_email delivered during the current pass
    exit_cause,               \* why the process exited, "none" while it runs
    since_main_call,          \* what the driver loop did since it last called main
    other_pass                \* a second, overlapping call of create_docker_log_threads

vars ==
    << docker_container_loggers, popen_env, threads, sinks, terminal, next_ident,
       lines_read, pc, cycle, idx, thread_start_tracker, thread_status, hist,
       email_alerts, alert_program_errors, index, sent, exit_cause, since_main_call,
       other_pass >>

\* The variables of main's status loop and of the driver loop.
alert_vars ==
    << email_alerts, alert_program_errors, index, sent, exit_cause, since_main_call >>

Sources == 1..Len(docker_container_loggers)

\* Outcome of a worker run.
NoOutcome == [kind |-> "none", phrases |-> {}]
EofOutcome == [kind |-> "eof", phrases |-> {}]
ErrorOutcome(ps) == [kind |-> "error", phrases |-> ps]

\* What one pass observed for one entry (bookkeeping for the properties).
FreshHist(live_at_start) ==
    [live_at_start |-> live_at_start, checked |-> FALSE, found |-> FALSE,
     exact_at_check |-> FALSE, spawns |-> 0, rechecked |-> FALSE, exact_at_recheck |-> FALSE, raised |-> FALSE]

\* A live thread with exactly this name exists.
ExactLive(name, ths) == \E k \in 1..Len(ths) : ths[k].name = name

\* The state of a second call of create_docker_log_threads that runs while
\* the driver's call does: where it is, and what its test at 168 found. The
\* driver loop makes one call at a time, so in the program it is never begun.
NoOtherPass ==
    [pc |-> "off", idx |-> 0, found |-> FALSE, exact_at_check |-> FALSE, tracker |-> <<>>]

InitWith(config) ==
    /\ docker_container_loggers = config.list
    /\ popen_env = config.env
    /\ threads = <<>>
    /\ sinks = [s \in 1..2 |-> <<>>]
    /\ terminal = [s \in 1..2 |-> NoOutcome]
    /\ next_ident = 1
    /\ lines_read = 0
    /\ pc = "idle"
    /\ cycle = 0
    /\ idx = 0
    /\ thread_start_tracker = <<>>
    /\ thread_status = <<>>
    /\ hist = [s \in 1..2 |-> FreshHist(FALSE)]
    /\ email_alerts = config.email_alerts
    /\ alert_program_errors = config.alert_program_errors
    /\ index = 0
    /\ sent = <<>>
    /\ exit_cause = "none"
    /\ since_main_call = "not_called"
    /\ other_pass = NoOtherPass

Init == \E config \in Configs : InitWith(config)

InitCapture == \E config \in CaptureConfigs : InitWith(config)

InitCollide == \E config \in CollideConfigs : InitWith(config)

InitOverlap == \E config \in OverlapConfigs : InitWith(config)

\* ------------------------------------------------- get_docker_log (worker)
\* Lines 87-96: the list of matches collected for one line.
matched_exclude_first(exclude, line) ==
    IF exclude # <<>> /\ IsSubstring(Head(exclude), line) THEN <<line>> ELSE <<>>

RECURSIVE matched_exclude(_, _)
matched_exclude(exclude, line) ==
    IF exclude = <<>> THEN <<>>
    ELSE (IF IsSubstring(Head(exclude), line) THEN <<line>> ELSE <<>>)
         \o matched_exclude(Tail(exclude), line)

\* Lines 80-103: what one iteration of the read loop writes to container_logger.
loop_iteration_any_unmatched(exclude, raw) ==
    LET line == rstrip(raw) IN
    IF exclude.kind = "str"
    THEN IF ~IsSubstring(exclude.str, line) THEN <<line>> ELSE <<>>
    ELSE IF exclude.kind = "list"
    THEN IF Len(matched_exclude(exclude.list, line)) < Len(exclude.list)
         THEN <<line>> ELSE <<>>
    ELSE <<line>>

loop_iteration_str_equal(exclude, raw) ==
    LET line == rstrip(raw) IN
    IF exclude.kind = "str"
    THEN IF exclude.str # line THEN <<line>> ELSE <<>>
    ELSE IF exclude.kind = "list"
    THEN IF matched_exclude(exclude.list, line) = <<>> THEN <<line>> ELSE <<>>
    ELSE <<line>>

loop_iteration(exclude, raw) ==
    LET line == rstrip(raw) IN
    IF exclude.kind = "str"
    THEN IF ~IsSubstring(exclude.str, line) THEN <<line>> ELSE <<>>
    ELSE IF exclude.kind = "list"
    THEN IF matched_exclude(exclude.list, line) = <<>> THEN <<line>> ELSE <<>>
    ELSE <<line>>

RemoveAt(seq, k) == SubSeq(seq, 1, k - 1) \o SubSeq(seq, k + 1, Len(seq))

\* The thread's function returned or raised: the thread is no longer alive.
ThreadEnds_all(k, outcome) ==
    /\ threads' = <<>>
    /\ terminal' = [terminal EXCEPT ![threads[k].src] = outcome]

ThreadEnds(k, outcome) ==
    /\ threads' = RemoveAt(threads, k)
    /\ terminal' = [terminal EXCEPT ![threads[k].src] = outcome]

\* Lines 50-53: value_type_validation of the arguments. The validator is a
\* library call; for exclude = None (neither str nor list) it may accept or
\* raise. A raise reaches the handler at 104: a formatted error is forwarded
\* (107), any other error makes line 110 fail on the unset processing_args.
WorkerValidate(k) ==
    /\ threads[k].pc = "validate"
    /\ \/ /\ threads' = [threads EXCEPT ![k].pc = "popen"]
          /\ UNCHANGED terminal
       \/ /\ docker_container_loggers[threads[k].src].exclude.kind = "None"
          /\ \E ps \in {{PhraseOriginating}, {PhraseUnbound}} :
                ThreadEnds(k, ErrorOutcome(ps))
    /\ UNCHANGED << docker_container_loggers, popen_env, sinks, next_ident, lines_read,
                    pc, cycle, idx, thread_start_tracker, thread_status, hist >>
    /\ UNCHANGED << alert_vars, other_pass >>

\* Line 76: subprocess.Popen. A missing executable raises FileNotFoundError,
\* which the handler (104-114) wraps into "The sub-process (...) failed to run".
WorkerPopen(k) ==
    /\ threads[k].pc = "popen"
    /\ IF popen_env[threads[k].src] = "not_found"
       THEN \E os \in {PhraseWinNotFound, PhrasePosixNotFound} :
                ThreadEnds(k, ErrorOutcome({PhraseSubProcess, os, PhraseOriginating}))
       ELSE /\ threads' = [threads EXCEPT ![k].pc = "read"]
            /\ UNCHANGED terminal
    /\ UNCHANGED << docker_container_loggers, popen_env, sinks, next_ident, lines_read,
                    pc, cycle, idx, thread_start_tracker, thread_status, hist >>
    /\ UNCHANGED << alert_vars, other_pass >>

\* Lines 78-103: readline returned a line; strip, filter, write.
WorkerReadLine(k, raw, budget) ==
    /\ threads[k].pc = "read"
    /\ lines_read < budget
    /\ LET out == loop_iteration(docker_container_loggers[threads[k].src].exclude, raw) IN
       /\ threads' = [threads EXCEPT ![k].read = @ \o <<raw>>]
       /\ sinks' = [sinks EXCEPT ![threads[k].src] = @ \o out]
    /\ lines_read' = lines_read + 1
    /\ UNCHANGED << docker_container_loggers, popen_env, terminal, next_ident,
                    pc, cycle, idx, thread_start_tracker, thread_status, hist >>
    /\ UNCHANGED << alert_vars, other_pass >>

\* Line 78: readline returned '' (the subprocess closed its output): the loop
\* ends and get_docker_log returns.
WorkerEOF(k) ==
    /\ threads[k].pc = "read"
    /\ ThreadEnds(k, EofOutcome)
    /\ UNCHANGED << docker_container_loggers, popen_env, sinks, next_ident, lines_read,
                    pc, cycle, idx, thread_start_tracker, thread_status, hist >>
    /\ UNCHANGED << alert_vars, other_pass >>

\* Line 78: readline raised (e.g. a decoding error); handler 104-114.
WorkerReadError_retry(k) ==
    /\ threads[k].pc = "read"
    /\ threads' = [threads EXCEPT ![k].pc = "popen"]
    /\ UNCHANGED << docker_container_loggers, popen_env, sinks, terminal, next_ident,
                    lines_read, pc, cycle, idx, thread_start_tracker, thread_status,
                    hist, email_alerts, alert_program_errors, index, sent, exit_cause,
                    since_main_call >>
    /\ UNCHANGED other_pass

WorkerReadError(k) ==
    /\ threads[k].pc = "read"
    /\ ThreadEnds(k, ErrorOutcome({PhraseSubProcess, PhraseOriginating}))
    /\ UNCHANGED << docker_container_loggers, popen_env, sinks, next_ident, lines_read,
                    pc, cycle, idx, thread_start_tracker, thread_status, hist >>
    /\ UNCHANGED << alert_vars, other_pass >>

\* -------------------------------- create_docker_log_threads (supervisor)
\* Lines 168 and 177: thread_name in str(threading.enumerate())
is_running_never(thread_name, ths) == FALSE

is_running(thread_name, ths) == IsSubstring(thread_name, str_enumerate(ths))

\* Line 165: the local thread_start_errors; nothing assigns it afterwards.
thread_start_errors_local == PyNone

\* Line 188.
running_record_as_started(thread_name, container_name) ==
    << [status |-> "started", thread_name |-> thread_name,
        container_name |-> container_name, thread_start_error |-> PyNone] >>

running_record(thread_name, container_name) ==
    << [status |-> "running", thread_name |-> thread_name,
        container_name |-> container_name, thread_start_error |-> PyNone] >>

\* Line 179.
started_record(thread_name, container_name) ==
    << [status |-> "started", thread_name |-> thread_name,
        container_name |-> container_name, thread_start_error |-> PyNone] >>

\* Line 182.
failed_record(container_name) ==
    << [status |-> "failed", container_name |-> container_name,
        thread_start_error |-> PyNone] >>

\* Line 185.
failed_errors_record(thread_name, container_name, errors) ==
    << [status |-> "failed", thread_name |-> thread_name,
        container_name |-> container_name, thread_start_errors |-> errors] >>

\* Lines 176-185: the record appended after start_function_thread returned.
record_after_start_always_started(thread_name, container_name, errors, alive) ==
    started_record(thread_name, container_name)

record_after_start(thread_name, container_name, errors, alive) ==
    IF errors.none
    THEN IF alive
         THEN started_record(thread_name, container_name)
         ELSE failed_record(container_name)
    ELSE failed_errors_record(thread_name, container_name, errors)

\* Python: dict.get(key)
Get(d, key) == IF key \in DOMAIN d THEN d[key] ELSE PyNone

\* main lines 437 and 449-505: the alert template chosen for a status value,
\* by the first phrase found in its thread_start_errors; none when that is None.
failure_category(value) ==
    LET errors == Get(value, "thread_start_errors") IN
    IF errors.none THEN "none"
    ELSE IF PhraseTimeout \in errors.phrases THEN "SourceTimeout"
    ELSE IF PhraseWinNotFound \in errors.phrases THEN "SourceNotFound"
    ELSE "SpawnOrStreamError"

\* Line 161: the name the pass works with for entry s.
container_name_of_first(s) == replace_spaces(docker_container_loggers[1].container_name)

container_name_of(s) == replace_spaces(docker_container_loggers[s].container_name)

\* Line 164.
ThreadNameAt(s) == thread_name_of(docker_container_loggers[s].container_name)

\* Line 154: the for loop moves to the next entry, or ends.
NextEntry ==
    /\ idx' = idx + 1
    /\ pc' = IF idx + 1 > Len(docker_container_loggers) THEN "return" ELSE "check"

\* __main__ line 589 -> main line 426: a pass begins.
CallMain ==
    /\ pc = "idle"
    /\ cycle < MaxCycles
    /\ cycle' = cycle + 1
    /\ thread_start_tracker' = <<>>
    /\ idx' = 1
    /\ pc' = IF Len(docker_container_loggers) = 0 THEN "return" ELSE "check"
    /\ hist' = [s \in 1..2 |->
                  FreshHist(s \in Sources /\ ExactLive(ThreadNameAt(s), threads))]
    /\ UNCHANGED << docker_container_loggers, popen_env, threads, sinks, terminal,
                    next_ident, lines_read, thread_status >>
    /\ index' = 0
    /\ sent' = <<>>
    /\ since_main_call' = "in_main"
    /\ UNCHANGED << email_alerts, alert_program_errors, exit_cause >>
    /\ UNCHANGED other_pass

\* Lines 157-168 and 186-188: the liveness test of one entry.
CheckThread ==
    /\ pc = "check"
    /\ hist' = [hist EXCEPT ![idx].checked = TRUE,
                            ![idx].found = is_running(ThreadNameAt(idx), threads),
                            ![idx].exact_at_check = ExactLive(ThreadNameAt(idx), threads)]
    /\ IF is_running(ThreadNameAt(idx), threads)
       THEN /\ thread_start_tracker' =
                   Append(thread_start_tracker,
                          running_record(ThreadNameAt(idx), container_name_of(idx)))
            /\ NextEntry
       ELSE /\ pc' = "start"
            /\ UNCHANGED << thread_start_tracker, idx >>
    /\ UNCHANGED << docker_container_loggers, popen_env, threads, sinks, terminal,
                    next_ident, lines_read, cycle, thread_status >>
    /\ UNCHANGED << alert_vars, other_pass >>

\* Line 173: the name start_function_thread gives the new thread (its second
\* argument); without one Python names the thread Thread-N.
start_thread_name_default(thread_name) ==
    <<"T", "h", "r", "e", "a", "d", "-">> \o str_int(next_ident)

start_thread_name(thread_name) == thread_name

\* Line 173: the live threads once the new thread t has been started: the
\* call starts a thread and touches no other.
live_after_start_only(ths, t) == << t >>

live_after_start(ths, t) == Append(ths, t)

\* Line 173: start_function_thread starts a thread named thread_name running
\* get_docker_log and returns.
StartFunctionThread ==
    /\ pc = "start"
    /\ threads' = live_after_start(threads,
                         [ident |-> next_ident,
                          name |-> start_thread_name(ThreadNameAt(idx)), src |-> idx,
                          born |-> cycle, pc |-> "validate", read |-> <<>>,
                          sink_start |-> Len(sinks[idx])])
    /\ next_ident' = next_ident + 1
    /\ hist' = [hist EXCEPT ![idx].spawns = @ + 1]
    /\ pc' = "recheck"
    /\ UNCHANGED << docker_container_loggers, popen_env, sinks, terminal, lines_read,
                    cycle, idx, thread_start_tracker, thread_status >>
    /\ UNCHANGED << alert_vars, other_pass >>

\* Line 173 raises (the thread cannot be started). Lines 193-203 re-raise,
\* main lines 552-557 log the error and exit the process.
StartFunctionThreadRaises ==
    /\ pc = "start"
    /\ hist' = [hist EXCEPT ![idx].spawns = @ + 1, ![idx].raised = TRUE]
    /\ pc' = "exited"
    /\ UNCHANGED << docker_container_loggers, popen_env, threads, sinks, terminal,
                    next_ident, lines_read, cycle, idx, thread_start_tracker,
                    thread_status >>
    /\ exit_cause' = "spawn_error"
    /\ UNCHANGED << email_alerts, alert_program_errors, index, sent, since_main_call >>
    /\ UNCHANGED other_pass

\* Lines 173-177: what the pass waits for between the return of the start call
\* and the re-check: nothing (no join, no event, no sleep lies between them).
wait_for_first_line(thread_name, ths) ==
    \A k \in 1..Len(ths) : ths[k].name = thread_name => ths[k].read # <<>>

wait_for_worker(thread_name, ths) == TRUE

\* Lines 176-185: the re-check after the start call returned.
Recheck ==
    /\ pc = "recheck"
    /\ wait_for_worker(ThreadNameAt(idx), threads)
    /\ hist' = [hist EXCEPT ![idx].rechecked = TRUE,
                            ![idx].exact_at_recheck = ExactLive(ThreadNameAt(idx), threads)]
    /\ thread_start_tracker' =
           Append(thread_start_tracker,
                  record_after_start(ThreadNameAt(idx), container_name_of(idx),
                                     thread_start_errors_local,
                                     is_running(ThreadNameAt(idx), threads)))
    /\ NextEntry
    /\ UNCHANGED << docker_container_loggers, popen_env, threads, sinks, terminal,
                    next_ident, lines_read, cycle, thread_status >>
    /\ UNCHANGED << alert_vars, other_pass >>

\* Lines 190-192 and main line 426: the pass returns its list. With an empty
\* list there is nothing for main's loop to do and main returns (566).
ReturnTracker ==
    /\ pc = "return"
    /\ thread_status' = thread_start_tracker
    /\ pc' = IF thread_start_tracker = <<>> THEN "sleep" ELSE "main"
    /\ since_main_call' = IF thread_start_tracker = <<>> THEN "ended" ELSE since_main_call
    /\ index' = 1
    /\ UNCHANGED << docker_container_loggers, popen_env, threads, sinks, terminal,
                    next_ident, lines_read, cycle, idx, thread_start_tracker, hist >>
    /\ UNCHANGED << email_alerts, alert_program_errors, sent, exit_cause >>
    /\ UNCHANGED other_pass

\* ------------------------------------- main (status loop) and driver loop
\* main lines 439-544: the branch the if/elif chain takes for a status.
status_branch_failed_only(status) ==
    IF "failed" = status THEN "alert"
    ELSE IF "started" = status THEN "started"
    ELSE IF "running" = status THEN "running"
    ELSE "unknown"

status_branch(status) ==
    IF "running" # status THEN "alert"
    ELSE IF "started" = status THEN "started"
    ELSE IF "running" = status THEN "running"
    ELSE "unknown"

\* An email handed to send_email for the record at position n.
Email(n, kind, value) ==
    [index |-> n, kind |-> kind, container_name |-> Get(value, "container_name"),
     status |-> Get(value, "status")]

\* main lines 441-444: the status email, sent when email_alerts is set.
status_email(n, value) ==
    IF email_alerts THEN << Email(n, "status", value) >> ELSE <<>>

\* main lines 449-527: the error email, sent for a record that carries
\* thread_start_errors when both settings are set.
error_email_ungated(n, value) ==
    IF ~Get(value, "thread_start_errors").none /\ email_alerts = TRUE
    THEN << Email(n, failure_category(value), value) >>
    ELSE <<>>

error_email(n, value) ==
    IF ~Get(value, "thread_start_errors").none
       /\ alert_program_errors = TRUE /\ email_alerts = TRUE
    THEN << Email(n, failure_category(value), value) >>
    ELSE <<>>

\* main lines 434-544: the send_email calls one iteration of the loop makes.
emails_for(n, value) ==
    IF status_branch(Get(value, "status")) = "alert"
    THEN status_email(n, value) \o error_email(n, value)
    ELSE <<>>

\* The value (dictionary) of the record main's loop is at.
CurrentValue == thread_status[index][1]

\* main line 566 and the end of main: back in the driver loop, at the sleep.
MainLoopAdvance ==
    /\ index' = index + 1
    /\ pc' = IF index + 1 > Len(thread_status) THEN "sleep" ELSE "main"
    /\ since_main_call' = IF index + 1 > Len(thread_status) THEN "ended" ELSE since_main_call

\* main lines 430-544: one iteration of the loop over thread_status. The
\* else branch (537-544) raises a formatted ValueError, which the handler at
\* 552-557 logs before it exits the process.
ProcessStatus ==
    /\ pc = "main"
    /\ index <= Len(thread_status)
    /\ IF status_branch(Get(CurrentValue, "status")) = "unknown"
       THEN /\ pc' = "exited"
            /\ exit_cause' = "unknown_status"
            /\ UNCHANGED << index, sent, since_main_call >>
       ELSE /\ sent' = sent \o emails_for(index, CurrentValue)
            /\ MainLoopAdvance
            /\ UNCHANGED exit_cause
    /\ UNCHANGED << docker_container_loggers, popen_env, threads, sinks, terminal,
                    next_ident, lines_read, cycle, idx, thread_start_tracker,
                    thread_status, hist, email_alerts, alert_program_errors >>
    /\ UNCHANGED other_pass

\* main lines 444 and 527: send_email raises (the mail server cannot be
\* reached, the login is refused). The call is inside the try of line 423: the
\* handler at 552-557 exits the process for a formatted error, and formats any
\* other error at 559-564, which the driver loop (599-603) then exits on.
SendEmailRaises ==
    /\ pc = "main"
    /\ index <= Len(thread_status)
    /\ \E n \in 1..Len(emails_for(index, CurrentValue)) :
          sent' = sent \o SubSeq(emails_for(index, CurrentValue), 1, n - 1)
    /\ pc' = "exited"
    /\ exit_cause' = "alert_delivery"
    /\ UNCHANGED << docker_container_loggers, popen_env, threads, sinks, terminal,
                    next_ident, lines_read, cycle, idx, thread_start_tracker,
                    thread_status, hist, email_alerts, alert_program_errors, index,
                    since_main_call >>
    /\ UNCHANGED other_pass

\* __main__ line 592: time.sleep(3600) returns.
Sleep ==
    /\ pc = "sleep"
    /\ pc' = "idle"
    /\ since_main_call' = "slept"
    /\ UNCHANGED << docker_container_loggers, popen_env, threads, sinks, terminal,
                    next_ident, lines_read, cycle, idx, thread_start_tracker,
                    thread_status, hist, email_alerts, alert_program_errors, index,
                    sent, exit_cause >>
    /\ UNCHANGED other_pass

\* __main__ line 589: main is called and raises before its first try, at
\* lines 328-335 (Path.cwd or os.makedirs fail with an OSError). No handler of
\* main sees it; the handler of the driver loop (599-603) finds no
\* 'Originating error on line' in it, does nothing, and the while loop goes
\* round to line 589 without reaching the sleep of line 592.
MainSetupRaises ==
    /\ pc = "idle"
    /\ cycle < MaxCycles
    /\ since_main_call' = "ended"
    /\ UNCHANGED << docker_container_loggers, popen_env, threads, sinks, terminal,
                    next_ident, lines_read, pc, cycle, idx, thread_start_tracker,
                    thread_status, hist, email_alerts, alert_program_errors, index,
                    sent, exit_cause >>
    /\ UNCHANGED other_pass

\* ------------------------- a second, overlapping call of the same function
\* create_docker_log_threads takes no lock and keeps no state of its own
\* besides its locals (117-203): a second call made while the driver's call
\* runs executes the same lines against the same threading.enumerate(). The
\* steps below are lines 154-192 for that second call; its locals are the
\* fields of other_pass.
OtherThreadName == ThreadNameAt(other_pass.idx)

\* Line 154 for the second call: the next entry, or the return at 192.
OtherNextEntry(o) ==
    IF o.idx < Len(docker_container_loggers)
    THEN [o EXCEPT !.idx = @ + 1, !.pc = "check"]
    ELSE [o EXCEPT !.pc = "done"]

\* The second call is made (line 154 with a non-empty list).
OtherCall ==
    /\ other_pass.pc = "off"
    /\ pc \notin {"idle", "exited"}
    /\ Len(docker_container_loggers) > 0
    /\ other_pass' = [pc |-> "check", idx |-> 1, found |-> FALSE,
                      exact_at_check |-> FALSE, tracker |-> <<>>]
    /\ UNCHANGED << docker_container_loggers, popen_env, threads, sinks, terminal,
                    next_ident, lines_read, pc, cycle, idx, thread_start_tracker,
                    thread_status, hist >>
    /\ UNCHANGED alert_vars

\* Line 168 (and 186-188) for the second call.
OtherCheck ==
    /\ other_pass.pc = "check"
    /\ LET o == [other_pass EXCEPT
                     !.found = is_running(OtherThreadName, threads),
                     !.exact_at_check = ExactLive(OtherThreadName, threads)]
       IN  other_pass' =
               IF is_running(OtherThreadName, threads)
               THEN OtherNextEntry([o EXCEPT !.tracker =
                        Append(@, running_record(OtherThreadName,
                                                 container_name_of(other_pass.idx)))])
               ELSE [o EXCEPT !.pc = "start"]
    /\ UNCHANGED << docker_container_loggers, popen_env, threads, sinks, terminal,
                    next_ident, lines_read, pc, cycle, idx, thread_start_tracker,
                    thread_status, hist >>
    /\ UNCHANGED alert_vars

\* Line 173 for the second call.
OtherStart ==
    /\ other_pass.pc = "start"
    /\ threads' = live_after_start(threads,
                         [ident |-> next_ident,
                          name |-> start_thread_name(OtherThreadName),
                          src |-> other_pass.idx,
                          born |-> cycle, pc |-> "validate", read |-> <<>>,
                          sink_start |-> Len(sinks[other_pass.idx])])
    /\ next_ident' = next_ident + 1
    /\ other_pass' = [other_pass EXCEPT !.pc = "recheck"]
    /\ UNCHANGED << docker_container_loggers, popen_env, sinks, terminal, lines_read,
                    pc, cycle, idx, thread_start_tracker, thread_status, hist >>
    /\ UNCHANGED alert_vars

\* Line 173 raises in the second call: 193-203 re-raise to its caller.
OtherStartRaises ==
    /\ other_pass.pc = "start"
    /\ other_pass' = [other_pass EXCEPT !.pc = "raised"]
    /\ UNCHANGED << docker_container_loggers, popen_env, threads, sinks, terminal,
                    next_ident, lines_read, pc, cycle, idx, thread_start_tracker,
                    thread_status, hist >>
    /\ UNCHANGED alert_vars

\* Lines 176-185 for the second call.
OtherRecheck ==
    /\ other_pass.pc = "recheck"
    /\ wait_for_worker(OtherThreadName, threads)
    /\ other_pass' =
           OtherNextEntry([other_pass EXCEPT !.tracker =
               Append(@, record_after_start(OtherThreadName,
                                            container_name_of(other_pass.idx),
                                            thread_start_errors_local,
                                            is_running(OtherThreadName, threads)))])
    /\ UNCHANGED << docker_container_loggers, popen_env, threads, sinks, terminal,
                    next_ident, lines_read, pc, cycle, idx, thread_start_tracker,
                    thread_status, hist >>
    /\ UNCHANGED alert_vars

\* The steps of the second call.
OtherPassStep ==
    \/ OtherCall
    \/ OtherCheck
    \/ OtherStart
    \/ OtherStartRaises
    \/ OtherRecheck

\* The steps of the main thread.
MainThreadStep ==
    \/ CallMain
    \/ CheckThread
    \/ StartFunctionThread
    \/ StartFunctionThreadRaises
    \/ Recheck
    \/ ReturnTracker
    \/ ProcessStatus
    \/ SendEmailRaises
    \/ Sleep
    \/ MainSetupRaises

\* The steps of the worker threads; a subprocess emits lines of the set lines.
WorkerStep(budget, lines) ==
    \/ \E k \in 1..Len(threads) : WorkerValidate(k)
    \/ \E k \in 1..Len(threads) : WorkerPopen(k)
    \/ \E k \in 1..Len(threads) : \E raw \in lines : WorkerReadLine(k, raw, budget)
    \/ \E k \in 1..Len(threads) : WorkerEOF(k)
    \/ \E k \in 1..Len(threads) : WorkerReadError(k)

Next == MainThreadStep \/ WorkerStep(MaxLines, SupervisorLines)

Spec == Init /\ [][Next]_vars

NextCapture == MainThreadStep \/ WorkerStep(MaxCaptureLines, RawLines)

SpecCapture == InitCapture /\ [][NextCapture]_vars

SpecCollide == InitCollide /\ [][Next]_vars

\* One container and two overlapping calls of create_docker_log_threads.
NextOverlap ==
    MainThreadStep \/ OtherPassStep \/ WorkerStep(MaxOverlapLines, SupervisorLines)

SpecOverlap == InitOverlap /\ [][NextOverlap]_vars

\* ---------------------------------------- main's status loop on its own
\* main lines 430-544 as a function of the list it is handed and of the two
\* alert settings. The lists hold every record create_docker_log_threads can
\* append (179, 182, 185, 188, with the error messages main distinguishes) and
\* a record with a status outside 'running, started, failed' (541), which no
\* pass appends.
unknown_record(thread_name, container_name) ==
    << [status |-> "stopped", thread_name |-> thread_name,
        container_name |-> container_name, thread_start_error |-> PyNone] >>

StatusErrors ==
    { {PhraseTimeout, PhraseOriginating},
      {PhraseTimeout, PhraseSubProcess, PhraseWinNotFound, PhraseOriginating},
      {PhraseSubProcess, PhraseWinNotFound, PhraseOriginating},
      {PhraseSubProcess, PhrasePosixNotFound, PhraseOriginating},
      {PhraseSubProcess, PhraseOriginating},
      {PhraseOriginating} }

StatusRecords ==
    { running_record(thread_name_of(NameApp), NameApp),
      started_record(thread_name_of(NameApp), NameApp),
      failed_record(NameApp),
      unknown_record(thread_name_of(NameApp), NameApp) }
    \cup { failed_errors_record(thread_name_of(NameApp), NameApp, ErrorValue(ps)) :
              ps \in StatusErrors }

StatusLists ==
    { <<r>> : r \in StatusRecords } \cup { <<r, q>> : r \in StatusRecords, q \in StatusRecords }

InitStatus ==
    /\ docker_container_loggers = << Entry(NameApp, ExcludeNone) >>
    /\ popen_env = <<"ok", "ok">>
    /\ threads = <<>>
    /\ sinks = [s \in 1..2 |-> <<>>]
    /\ terminal = [s \in 1..2 |-> NoOutcome]
    /\ next_ident = 1
    /\ lines_read = 0
    /\ pc = "main"
    /\ cycle = 1
    /\ idx = 0
    /\ thread_status \in StatusLists
    /\ thread_start_tracker = thread_status
    /\ hist = [s \in 1..2 |-> FreshHist(FALSE)]
    /\ email_alerts \in BOOLEAN
    /\ alert_program_errors \in BOOLEAN
    /\ index = 1
    /\ sent = <<>>
    /\ exit_cause = "none"
    /\ since_main_call = "in_main"
    /\ other_pass = NoOtherPass

NextStatus == ProcessStatus \/ SendEmailRaises

SpecStatus == InitStatus /\ [][NextStatus]_vars

\* ------------------------------------------------------------ properties
\* The record the current pass appended for entry i.
Rec(i) == thread_start_tracker[i][1]

Recorded == 1..Len(thread_start_tracker)

\* dockerlogredirect.py line 133: the logger of entry s is the logger named
\* after the configured container name; it is the sink the worker of s writes.
logger_name_of(s) == docker_container_loggers[s].container_name

\* The lines a live worker has written to its sink since it started.
WrittenBy(t) == SubSeq(sinks[t.src], t.sink_start + 1, Len(sinks[t.src]))

\* C1: at no time do two live capture workers carry the same thread name.
C1_AtMostOneLiveWorker ==
    \A j, k \in 1..Len(threads) :
        j # k => threads[j].name # threads[k].name

\* C1 witness: in the second pass an entry has been checked while the worker
\* started for it in the first pass is still alive.
C1_Witness ==
    /\ cycle = 2
    /\ \E k \in 1..Len(threads) :
          /\ threads[k].born = 1
          /\ hist[threads[k].src].checked
          /\ hist[threads[k].src].exact_at_check

\* C2: a record of the current pass about an entry whose worker is alive is
\* "running", with no start attempted, when that worker was started in an
\* earlier pass, and "started" when this pass started the worker for the entry.
C2_Idempotent ==
    \A i \in Recorded : \A k \in 1..Len(threads) :
        threads[k].name = ThreadNameAt(i) =>
            /\ threads[k].born < cycle =>
                  Rec(i).status = "running" /\ hist[i].spawns = 0
            /\ (threads[k].born = cycle /\ threads[k].src = i) =>
                  Rec(i).status = "started"

\* C2 witness: the second pass has returned "running" for an entry whose
\* worker, started in the first pass, is still the only one of its name.
C2_Witness ==
    /\ cycle = 2
    /\ pc = "main"
    /\ \E i \in Recorded : \E k \in 1..Len(threads) :
          /\ threads[k].src = i
          /\ threads[k].born = 1
          /\ Rec(i).status = "running"
          /\ thread_status[i][1].status = "running"

\* C3 (as claimed): a "running" record means that a live worker named exactly
\* like the entry's thread existed before the pass began (and at the check),
\* and that the pass attempted no start for the entry.
C3_RunningMeansLiveBefore ==
    \A i \in Recorded :
        Rec(i).status = "running" =>
            /\ hist[i].live_at_start
            /\ hist[i].exact_at_check
            /\ hist[i].spawns = 0

C5_FullReport ==
    (cycle > 0 /\ pc \in {"main", "idle", "exited"}) =>
        /\ thread_status = thread_start_tracker
        /\ Len(thread_status) = Len(docker_container_loggers)

\* C6 (as claimed): when the start call for an entry raised, the pass holds a
\* "failed" record of category SpawnOrStreamError for it and goes on.
C6_SpawnRaiseGivesFailedRecord ==
    \A i \in 1..Len(docker_container_loggers) :
        hist[i].raised =>
            /\ pc # "exited"
            /\ i \in Recorded
            /\ Rec(i).status = "failed"
            /\ failure_category(Rec(i)) = "SpawnOrStreamError"

\* C7 (as claimed): the record of a pass that attempted the start for an entry
\* whose executable cannot be found is "failed" with category SourceNotFound,
\* and nothing is ever written to that entry's sink.
C7_NotFoundGivesFailedNotFound ==
    \A i \in 1..Len(docker_container_loggers) :
        popen_env[i] = "not_found" =>
            /\ sinks[i] = <<>>
            /\ (i \in Recorded /\ hist[i].spawns = 1) =>
                  /\ Rec(i).status = "failed"
                  /\ failure_category(Rec(i)) = "SourceNotFound"

\* The part of C7 about the sink alone.
C7_SinkStaysEmpty ==
    \A i \in 1..Len(docker_container_loggers) :
        popen_env[i] = "not_found" => sinks[i] = <<>>

\* C8 (as claimed): a "failed" record appended because the worker had ended
\* with an error before the re-check carries that error under the key
\* thread_start_errors, which is what main reads to choose the alert.
C8_FailedCarriesTerminalError ==
    \A i \in Recorded :
        ( /\ Rec(i).status = "failed"
          /\ hist[i].rechecked
          /\ ~hist[i].exact_at_recheck
          /\ terminal[i].kind = "error" ) =>
            /\ Get(Rec(i), "thread_start_errors") = ErrorValue(terminal[i].phrases)
            /\ failure_category(Rec(i)) # "none"

\* C9 (as claimed): in every pass, an entry that has no live worker of its
\* thread name when the pass reaches it gets a fresh start attempt.
C9_NotLiveIsRespawned ==
    \A i \in Recorded : ~hist[i].exact_at_check => hist[i].spawns = 1

\* C10: the exclusion filter and the stripping as the claim states them.
StripTrailing(l) ==
    LET keep == {k \in 1..Len(l) : l[k] \notin Whitespace} IN
    IF keep = {} THEN <<>>
    ELSE SubSeq(l, 1, CHOOSE k \in keep : \A m \in keep : m <= k)

Passes(l, exclude) ==
    IF exclude.kind = "str" THEN ~IsSubstring(exclude.str, l)
    ELSE IF exclude.kind = "list"
    THEN \A n \in 1..Len(exclude.list) : ~IsSubstring(exclude.list[n], l)
    ELSE TRUE

RECURSIVE Forwarded(_, _)
Forwarded(read, exclude) ==
    IF read = <<>> THEN <<>>
    ELSE LET l == StripTrailing(Head(read)) IN
         (IF Passes(l, exclude) THEN <<l>> ELSE <<>>) \o Forwarded(Tail(read), exclude)

\* C10: at every moment of a worker's run, the lines it has written to its
\* sink are the stripped lines read so far that pass the filter, in order.
C10_OrderPreserved ==
    \A k \in 1..Len(threads) :
        WrittenBy(threads[k]) =
            Forwarded(threads[k].read, docker_container_loggers[threads[k].src].exclude)

\* C10 witness: a worker has read three lines, dropped one and written two
\* different ones.
C10_Witness ==
    \E k \in 1..Len(threads) :
        /\ Len(threads[k].read) = 3
        /\ Len(WrittenBy(threads[k])) = 2
        /\ WrittenBy(threads[k])[1] # WrittenBy(threads[k])[2]

\* C11: at every moment the live capture workers write to pairwise different
\* sinks: no two live workers were started for the same entry, nor for two
\* entries that share a logger.
C11_SinkExclusive ==
    \A j, k \in 1..Len(threads) :
        j # k =>
            /\ threads[j].src # threads[k].src
            /\ logger_name_of(threads[j].src) # logger_name_of(threads[k].src)

\* C11 witness: the second pass has returned while the workers of both entries,
\* started in the first pass, are alive and one of them has written a line.
C11_Witness ==
    /\ cycle = 2
    /\ pc = "main"
    /\ Len(threads) = 2
    /\ threads[1].born = 1
    /\ threads[2].born = 1
    /\ \E k \in 1..2 : WrittenBy(threads[k]) # <<>>

\* C12: an entry without filter: exclude absent (None) or an empty list.
NoFilter(exclude) ==
    exclude.kind = "None" \/ (exclude.kind = "list" /\ exclude.list = <<>>)

\* Every line read, stripped, in order.
StrippedAll(read) == [n \in 1..Len(read) |-> StripTrailing(read[n])]

\* C12 (as claimed): the worker of an entry without filter starts normally,
\* that is, it is never ended by a rejection of its arguments (whatever error
\* ends it is a failure of the subprocess), and while it runs it has written
\* every line it has read.
C12_NoFilterForwardsAll ==
    \A i \in Sources :
        NoFilter(docker_container_loggers[i].exclude) =>
            /\ terminal[i].kind = "error" => PhraseSubProcess \in terminal[i].phrases
            /\ \A k \in 1..Len(threads) :
                  threads[k].src = i => WrittenBy(threads[k]) = StrippedAll(threads[k].read)

\* The part of C12 about the empty list alone.
C12_EmptyListForwardsAll ==
    \A i \in Sources :
        ( /\ docker_container_loggers[i].exclude.kind = "list"
          /\ docker_container_loggers[i].exclude.list = <<>> ) =>
            /\ terminal[i].kind = "error" => PhraseSubProcess \in terminal[i].phrases
            /\ \A k \in 1..Len(threads) :
                  threads[k].src = i => WrittenBy(threads[k]) = StrippedAll(threads[k].read)

\* The exclude setting of the entry a live worker was started for.
ExcludeOf(t) == docker_container_loggers[t.src].exclude

\* The stripped form of the line a worker read last.
LastLine(t) == StripTrailing(t.read[Len(t.read)])

\* C13: whenever the worker of an entry with a pattern list P reads a line l,
\* that step appends the stripped l to the sink if and only if no pattern of P
\* is a substring of it, and leaves the sink as it was otherwise.
C13_MultiPattern ==
    [][\A k \in 1..Len(threads) :
          ( /\ lines_read' = lines_read + 1
            /\ threads'[k].read # threads[k].read
            /\ ExcludeOf(threads[k]).kind = "list" ) =>
              LET l == LastLine(threads'[k])
                  P == ExcludeOf(threads[k]).list
                  src == threads[k].src IN
              /\ (\A n \in 1..Len(P) : ~IsSubstring(P[n], l)) =>
                    sinks'[src] = Append(sinks[src], l)
              /\ (\E n \in 1..Len(P) : IsSubstring(P[n], l)) =>
                    sinks'[src] = sinks[src]]_vars

\* C13 witness: a worker with a list of two patterns has read three lines, has
\* dropped one that only the second pattern matches and has forwarded another.
C13_Witness ==
    \E k \in 1..Len(threads) :
        LET P == ExcludeOf(threads[k]).list
            read == threads[k].read IN
        /\ ExcludeOf(threads[k]).kind = "list"
        /\ Len(P) = 2
        /\ Len(read) = 3
        /\ \E n \in 1..3 :
              /\ ~IsSubstring(P[1], StripTrailing(read[n]))
              /\ IsSubstring(P[2], StripTrailing(read[n]))
        /\ WrittenBy(threads[k]) # <<>>
        /\ Len(WrittenBy(threads[k])) < 3

\* C14: whenever the worker of an entry with a single pattern p reads a line
\* l, that step appends the stripped l to the sink if and only if p is not a
\* substring of it, and leaves the sink as it was otherwise.
C14_SinglePattern ==
    [][\A k \in 1..Len(threads) :
          ( /\ lines_read' = lines_read + 1
            /\ threads'[k].read # threads[k].read
            /\ ExcludeOf(threads[k]).kind = "str" ) =>
              LET l == LastLine(threads'[k])
                  p == ExcludeOf(threads[k]).str
                  src == threads[k].src IN
              sinks'[src] = IF IsSubstring(p, l) THEN sinks[src] ELSE Append(sinks[src], l)]_vars

\* C14 witness: a worker with a single non-empty pattern has read three lines,
\* one that holds the pattern inside a longer line and was dropped, and one
\* that does not hold it and was forwarded.
C14_Witness ==
    \E k \in 1..Len(threads) :
        LET p == ExcludeOf(threads[k]).str
            read == threads[k].read IN
        /\ ExcludeOf(threads[k]).kind = "str"
        /\ p # <<>>
        /\ Len(read) = 3
        /\ \E n \in 1..3 :
              /\ IsSubstring(p, StripTrailing(read[n]))
              /\ p # StripTrailing(read[n])
        /\ \E n \in 1..3 : ~IsSubstring(p, StripTrailing(read[n]))
        /\ Len(WrittenBy(threads[k])) \in {1, 2}

\* C15: the empty string is among the patterns of the entry.
HasEmptyPattern(exclude) ==
    \/ exclude.kind = "str" /\ exclude.str = <<>>
    \/ exclude.kind = "list" /\ \E n \in 1..Len(exclude.list) : exclude.list[n] = <<>>

\* C15: for an entry whose single pattern is the empty string, or whose
\* pattern list holds the empty string, nothing is ever written to the sink,
\* and the pattern raises no error: whatever error ends the worker is a
\* failure of the subprocess, not a rejection of its arguments.
C15_EmptyPatternDropsAll ==
    \A i \in Sources :
        HasEmptyPattern(docker_container_loggers[i].exclude) =>
            /\ sinks[i] = <<>>
            /\ terminal[i].kind = "error" => PhraseSubProcess \in terminal[i].phrases

\* C15 witness: a worker whose pattern list holds the empty string has read
\* three lines, has written none and is still reading.
C15_Witness ==
    \E k \in 1..Len(threads) :
        /\ ExcludeOf(threads[k]).kind = "list"
        /\ HasEmptyPattern(ExcludeOf(threads[k]))
        /\ Len(threads[k].read) = 3
        /\ threads[k].pc = "read"
        /\ sinks[threads[k].src] = <<>>

\* The statuses main knows (line 541).
KnownStatuses == {"running", "started", "failed"}

\* C16 (as claimed): main's loop does not get past a record whose status is
\* not a known one: it sends no email for the record, and the loop ends at
\* that record with the unknown-status error.
C16_UnknownStatusAborts ==
    \A n \in 1..Len(thread_status) :
        (pc \in {"main", "sleep", "exited"} /\ thread_status[n][1].status \notin KnownStatuses) =>
            /\ index <= n
            /\ \A e \in 1..Len(sent) : sent[e].index # n
            /\ (index = n /\ pc = "exited") => exit_cause = "unknown_status"

\* C17 (as claimed): the process exits only for an error of the configuration
\* or for an unknown status.
C17_OnlyConfigOrUnknownStatusExits ==
    pc = "exited" => exit_cause \in {"configuration", "unknown_status"}

\* C18: a step in which a worker ends takes that one worker out of the live
\* threads and leaves every other worker alive as it was; when the worker
\* ended with an error, the step also leaves every sink holding what it held,
\* every other entry's last outcome untouched, and the main thread where it was.
C18_WorkerErrorIsLocal ==
    [][Len(threads') < Len(threads) =>
          \E k \in 1..Len(threads) :
              /\ threads' = RemoveAt(threads, k)
              /\ terminal'[threads[k].src].kind = "error" =>
                    /\ sinks' = sinks
                    /\ \A i \in 1..2 : i # threads[k].src => terminal'[i] = terminal[i]
                    /\ pc' = pc
                    /\ exit_cause' = exit_cause]_vars

\* C18 witness: the worker of one entry has ended with an error while the
\* worker of the other entry is alive and has written to its sink, and the
\* main thread has gone on to finish the pass.
C18_Witness ==
    /\ pc = "sleep"
    /\ \E i \in Sources : \E k \in 1..Len(threads) :
          /\ terminal[i].kind = "error"
          /\ threads[k].src # i
          /\ \A j \in 1..Len(threads) : threads[j].src # i
          /\ WrittenBy(threads[k]) # <<>>

\* C19: a name in a record denotes a configured name: the same characters,
\* but for an underscore where the configured name has a blank.
DenotesSource(name, configured) ==
    /\ Len(name) = Len(configured)
    /\ \A k \in 1..Len(name) :
          name[k] = configured[k] \/ (configured[k] = " " /\ name[k] = "_")

\* C19: the list a pass returned holds one record for every configured entry,
\* in the order of the configuration: the i-th element is a list of one
\* dictionary, whose container_name denotes the i-th entry.
C19_OneRecordPerSourceInOrder ==
    thread_status # <<>> =>
        /\ Len(thread_status) = Len(docker_container_loggers)
        /\ \A i \in 1..Len(thread_status) :
              /\ Len(thread_status[i]) = 1
              /\ DenotesSource(thread_status[i][1].container_name,
                               docker_container_loggers[i].container_name)

\* C19 witness: the second pass has returned two records of different status
\* for two entries of different names.
C19_Witness ==
    /\ cycle = 2
    /\ pc = "main"
    /\ Len(thread_status) = 2
    /\ thread_status[1][1].status # thread_status[2][1].status
    /\ thread_status[1][1].container_name # thread_status[2][1].container_name

\* C20 (as claimed): main is not called again before the driver loop has
\* slept since the previous call of main ended.
C20_WaitBetweenCycles ==
    [][cycle' = cycle + 1 => since_main_call \in {"not_called", "slept"}]_vars

\* C21: no email is delivered while email_alerts is off, and an email about
\* an error of the program (one that carries a failure category) is delivered
\* only while email_alerts and alert_program_errors are both on.
C21_AlertGating ==
    /\ ~email_alerts => sent = <<>>
    /\ \A e \in 1..Len(sent) :
          sent[e].kind # "status" => (email_alerts /\ alert_program_errors)

\* C21 witness: main's loop has ended after it delivered an error email for a
\* record that carries thread_start_errors.
C21_Witness ==
    /\ pc = "sleep"
    /\ email_alerts
    /\ alert_program_errors
    /\ \E e \in 1..Len(sent) :
          /\ sent[e].kind # "status"
          /\ ~Get(thread_status[sent[e].index][1], "thread_start_errors").none

\* What the main thread advances: its position, its loops and its lists.
MainThreadVars ==
    << pc, cycle, idx, thread_start_tracker, thread_status, index, sent,
       exit_cause, since_main_call >>

\* C22: no step of the main thread (of a pass, of main's loop, of the driver
\* loop) ends or alters a live worker: after the step every thread that was
\* alive is alive as it was, at the same place of the thread list.
C22_NeverStopsLiveWorker ==
    [][MainThreadVars' # MainThreadVars =>
          /\ Len(threads') >= Len(threads)
          /\ \A k \in 1..Len(threads) : threads'[k] = threads[k]]_vars

\* C22 witness: the last pass the model follows has reported "running" for an
\* entry whose worker was started by the first pass, has started a worker for
\* the other entry, and has ended; the old worker is still reading.
C22_Witness ==
    /\ cycle = MaxCycles
    /\ pc = "sleep"
    /\ \E k \in 1..Len(threads) :
          /\ threads[k].born = 1
          /\ threads[k].pc = "read"
          /\ thread_status[threads[k].src][1].status = "running"
          /\ \E j \in 1..Len(threads) : threads[j].born = MaxCycles

\* C23: how far a worker run has got: arguments, Popen, read loop.
Stage(t) == IF t.pc = "validate" THEN 1 ELSE IF t.pc = "popen" THEN 2 ELSE 3

\* C23: (a) a worker that has reached its read loop leaves the live threads
\* only with an end-of-input or an error as its outcome, and a worker that has
\* not reached it only with an error; (b) a worker run never goes back: it
\* passes Popen once and the lines it has read only grow; (c) a thread is
\* started only by the start step of a pass, for the entry the pass is at, and
\* once per entry and pass.
C23_EndsOnlyOnEofOrErrorNoRetry ==
    [][/\ Len(threads') < Len(threads) =>
             \E k \in 1..Len(threads) :
                 /\ threads' = RemoveAt(threads, k)
                 /\ terminal'[threads[k].src].kind \in {"eof", "error"}
                 /\ terminal'[threads[k].src].kind = "eof" => threads[k].pc = "read"
       /\ \A j \in 1..Len(threads) : \A k \in 1..Len(threads') :
             threads'[k].ident = threads[j].ident =>
                 /\ Stage(threads'[k]) >= Stage(threads[j])
                 /\ Len(threads'[k].read) >= Len(threads[j].read)
                 /\ SubSeq(threads'[k].read, 1, Len(threads[j].read)) = threads[j].read
       /\ \A k \in 1..Len(threads') :
             (\A j \in 1..Len(threads) : threads[j].ident # threads'[k].ident) =>
                 /\ pc = "start"
                 /\ threads'[k].src = idx
                 /\ threads'[k].born = cycle
                 /\ threads'[k].pc = "validate"
                 /\ hist[idx].spawns = 0
                 /\ hist'[idx].spawns = 1]_vars

\* C23 witness: the worker of an entry read a line and then ended with an
\* error of the subprocess during the first pass's hour; the entry had no
\* worker until the second pass started a new one, which is reading.
C23_Witness ==
    /\ cycle = 2
    /\ \E i \in Sources : \E k \in 1..Len(threads) :
          /\ terminal[i].kind = "error"
          /\ sinks[i] # <<>>
          /\ ~hist[i].live_at_start
          /\ hist[i].spawns = 1
          /\ threads[k].src = i
          /\ threads[k].born = 2
          /\ threads[k].pc = "read"
          /\ threads[k].sink_start = Len(sinks[i])

\* C24 (as claimed): whatever error ends a worker, the message it ends with
\* holds "The sub-process (...)", the command arguments.
C24_ErrorEmbedsCommand ==
    \A i \in Sources :
        terminal[i].kind = "error" => PhraseSubProcess \in terminal[i].phrases

\* The part of C24 about errors of Popen and of the read loop alone: a worker
\* that ends with an error after line 69 has set the command arguments ends
\* with the message that embeds them.
C24_SpawnAndReadErrorsEmbedCommand ==
    [][\A k \in 1..Len(threads) :
          ( /\ threads' = RemoveAt(threads, k)
            /\ threads[k].pc \in {"popen", "read"}
            /\ terminal'[threads[k].src].kind = "error" ) =>
              PhraseSubProcess \in terminal'[threads[k].src].phrases]_vars

\* C25: the category the claim gives a terminal error: a timeout first, then
\* an executable that could not be found (in the wording of either operating
\* system, as Popen reports it), then the generic category.
ClaimedCategory(errors) ==
    IF PhraseTimeout \in errors.phrases THEN "SourceTimeout"
    ELSE IF PhraseWinNotFound \in errors.phrases \/ PhrasePosixNotFound \in errors.phrases
    THEN "SourceNotFound"
    ELSE "SpawnOrStreamError"

\* The record an email of the current pass is about.
ValueOf(email) == thread_status[email.index][1]

\* C25 (as claimed): every error email main sends carries the category the
\* claim gives the record's thread_start_errors.
C25_ClassificationOrder ==
    \A e \in 1..Len(sent) :
        sent[e].kind # "status" =>
            sent[e].kind = ClaimedCategory(Get(ValueOf(sent[e]), "thread_start_errors"))

\* The parts of C25 about the order and the catch-all alone: a message that
\* holds the timeout phrase is a SourceTimeout whatever else it holds, a
\* message that holds neither the timeout phrase nor the phrase of line 465 is
\* a SpawnOrStreamError, and every error email has one of the three categories.
C25_TimeoutFirstAndCatchAll ==
    \A e \in 1..Len(sent) :
        sent[e].kind # "status" =>
            LET phrases == Get(ValueOf(sent[e]), "thread_start_errors").phrases IN
            /\ sent[e].kind \in {"SourceTimeout", "SourceNotFound", "SpawnOrStreamError"}
            /\ PhraseTimeout \in phrases => sent[e].kind = "SourceTimeout"
            /\ (PhraseTimeout \notin phrases /\ PhraseWinNotFound \in phrases) =>
                  sent[e].kind = "SourceNotFound"
            /\ (PhraseTimeout \notin phrases /\ PhraseWinNotFound \notin phrases) =>
                  sent[e].kind = "SpawnOrStreamError"

\* C26: the steps of a pass of create_docker_log_threads, and how far it is.
InPass == pc \in {"check", "start", "recheck", "return"}

PassStep ==
    \/ CheckThread
    \/ StartFunctionThread
    \/ StartFunctionThreadRaises
    \/ Recheck
    \/ ReturnTracker

PassPosition ==
    3 * idx + (IF pc = "start" THEN 1 ELSE IF pc = "recheck" THEN 2 ELSE 0)

\* C26: while a pass is underway its next step can always be taken, whatever
\* the workers have or have not done, and every step of the pass either ends
\* it or moves it forward through the list, which it leaves after at most
\* three steps per entry.
C26_PassNeverWaits ==
    /\ [](InPass => ENABLED PassStep)
    /\ [](InPass => PassPosition <= 3 * (Len(docker_container_loggers) + 1))
    /\ [][(InPass /\ (pc' # pc \/ idx' # idx)) =>
             \/ pc' \in {"main", "sleep", "exited"}
             \/ PassPosition' > PassPosition]_vars

\* C26 witness: a pass has returned "started" for both entries while neither
\* worker has got past the validation of its arguments: no subprocess exists
\* yet and no line has been read.
C26_Witness ==
    /\ pc = "main"
    /\ Len(threads) = 2
    /\ \A k \in 1..2 :
          /\ threads[k].pc = "validate"
          /\ threads[k].read = <<>>
          /\ threads[k].born = cycle
          /\ thread_status[threads[k].src][1].status = "started"

\* C27: the test at 168 and the start at 173 are two steps. A thread is
\* started under a name that a live thread already has only by a call whose
\* own test at 168 ran while no thread of that name was alive (the other call
\* started its thread in between), and while no second call has begun no two
\* live threads share a name.
SameNameLive(ths) ==
    \E j, k \in 1..Len(ths) : j # k /\ ths[j].name = ths[k].name

C27_DuplicateOnlyThroughCheckWindow ==
    /\ [](other_pass.pc = "off" => ~SameNameLive(threads))
    /\ [][(/\ Len(threads') = Len(threads) + 1
           /\ ExactLive(threads'[Len(threads')].name, threads)) =>
              IF other_pass' # other_pass
              THEN /\ other_pass.pc = "start"
                   /\ ~other_pass.found
                   /\ ~other_pass.exact_at_check
              ELSE /\ pc = "start"
                   /\ ~hist[idx].found
                   /\ ~hist[idx].exact_at_check]_vars

\* Two live threads of one name, each of which has written to the one logger.
C27_Witness ==
    \E j, k \in 1..Len(threads) :
        /\ j # k
        /\ threads[j].name = threads[k].name
        /\ threads[j].src = threads[k].src
        /\ threads[j].read # <<>>
        /\ threads[k].read # <<>>
        /\ Len(sinks[threads[j].src]) = 2

\* C28: the thread name is a function of the container name alone: the name
\* with every space turned into an underscore, followed by '_thread'
\* ('app1' gives 'app1_thread'). Every live thread and every record that
\* names a thread carries that name of its entry.
ClaimedWorkerName(n) ==
    [k \in 1..(Len(n) + 7) |->
        IF k <= Len(n)
        THEN (IF n[k] = " " THEN "_" ELSE n[k])
        ELSE <<"_", "t", "h", "r", "e", "a", "d">>[k - Len(n)]]

NameSamples ==
    { <<"a", "p", "p", "1">>, <<"a", " ", "b", " ", "c">>, <<" ">>, << >>,
      <<"a", "_", " ">>, NameMySpApp, NameMyUsApp }

C28_WorkerNameFromSourceName ==
    /\ thread_name_of(<<"a", "p", "p", "1">>) =
           <<"a", "p", "p", "1", "_", "t", "h", "r", "e", "a", "d">>
    /\ \A n \in NameSamples : thread_name_of(n) = ClaimedWorkerName(n)
    /\ \A k \in 1..Len(threads) :
           threads[k].name =
               ClaimedWorkerName(docker_container_loggers[threads[k].src].container_name)
    /\ \A r \in 1..Len(thread_start_tracker) :
           "thread_name" \in DOMAIN thread_start_tracker[r][1] =>
               thread_start_tracker[r][1].thread_name =
                   ClaimedWorkerName(docker_container_loggers[r].container_name)

\* A thread runs for the entry named 'my app', under the name my_app_thread,
\* in a later pass than the one that started it.
C28_Witness ==
    \E k \in 1..Len(threads) :
        /\ docker_container_loggers[threads[k].src].container_name = NameMySpApp
        /\ threads[k].name =
               <<"m", "y", "_", "a", "p", "p", "_", "t", "h", "r", "e", "a", "d">>
        /\ threads[k].born < cycle
        /\ Len(thread_start_tracker) >= 1
        /\ thread_start_tracker[1][1].thread_name = threads[k].name

\* The three parts of the statement about the records of a returned list.
C29_CarriesWorkerName ==
    \A r \in Recorded :
        /\ "thread_name" \in DOMAIN Rec(r)
        /\ Rec(r).thread_name = ThreadNameAt(r)

C29_SourceNameAsConfigured ==
    \A r \in Recorded :
        /\ "container_name" \in DOMAIN Rec(r)
        /\ Rec(r).container_name = docker_container_loggers[r].container_name

C29_StatusKnown ==
    \A r \in Recorded :
        "status" \in DOMAIN Rec(r) /\ Rec(r).status \in KnownStatuses

\* C29: every record of the list a pass returns carries the thread name, a
\* container name equal to the configured name of its entry, and a status
\* among running, started and failed.
C29_RecordFields ==
    /\ C29_CarriesWorkerName
    /\ C29_SourceNameAsConfigured
    /\ C29_StatusKnown

\* Two entries whose names differ and whose thread names are the same.
Colliding ==
    /\ Len(docker_container_loggers) = 2
    /\ docker_container_loggers[1].container_name #
           docker_container_loggers[2].container_name
    /\ ClaimedWorkerName(docker_container_loggers[1].container_name) =
           ClaimedWorkerName(docker_container_loggers[2].container_name)

LiveFor(s, ths) == \E k \in 1..Len(ths) : ths[k].src = s

StatusEmailsFor(n) ==
    { e \in 1..Len(sent) : sent[e].kind = "status" /\ sent[e].index = n }

StatusAt(n) == thread_status[n][1].status

\* C31: of the records main's loop has gone through, exactly those whose
\* status is not "running" (started ones as well as failed ones) got a status
\* email, one each, when email_alerts is on; no status email is ever about a
\* running record, none is sent with email_alerts off, and a send_email call
\* that raised was made for a record that is not running.
C31_StatusAlertExactlyNonRunning ==
    /\ \A n \in 1..Len(thread_status) :
          n < index =>
              Cardinality(StatusEmailsFor(n)) =
                  (IF email_alerts /\ StatusAt(n) # "running" THEN 1 ELSE 0)
    /\ \A e \in 1..Len(sent) :
          sent[e].kind = "status" =>
              /\ email_alerts
              /\ sent[e].index \in 1..Len(thread_status)
              /\ StatusAt(sent[e].index) # "running"
              /\ sent[e].status = StatusAt(sent[e].index)
    /\ exit_cause = "alert_delivery" =>
          (email_alerts /\ StatusAt(index) # "running")

\* main's loop has ended on a list that holds a started and a running record:
\* a status email went out for the started one, none for the running one.
C31_Witness ==
    /\ pc = "sleep"
    /\ email_alerts
    /\ \E a, c \in 1..Len(thread_status) :
          /\ StatusAt(a) = "started" /\ Cardinality(StatusEmailsFor(a)) = 1
          /\ StatusAt(c) = "running" /\ StatusEmailsFor(c) = {}

\* The three parts of the statement about a worker whose stream has ended.
\* (1) Lines 78-103: the step that ends a worker at end of input leaves no
\* error, changes no logger and does not touch the main thread.
C32_EofEndsQuietly ==
    [][\A s \in Sources :
          (terminal'[s] # terminal[s] /\ terminal'[s].kind = "eof") =>
              /\ terminal'[s].phrases = {}
              /\ Len(threads') = Len(threads) - 1
              /\ \E k \in 1..Len(threads) :
                    /\ threads[k].src = s
                    /\ threads[k].pc = "read"
                    /\ threads' = RemoveAt(threads, k)
              /\ sinks' = sinks
              /\ pc' = pc
              /\ exit_cause' = exit_cause]_vars

\* (2) Line 168: a pass that reaches an entry whose worker has ended at end of
\* input, and has no live worker, goes on to start one.
C32_NextPassRespawns ==
    [][(/\ pc = "check"
        /\ (pc' # pc \/ idx' # idx)
        /\ terminal[idx].kind = "eof"
        /\ ~LiveFor(idx, threads)) => pc' = "start"]_vars

\* (3) Lines 176-179: with the new worker alive at the re-check the record is
\* "started".
C32_StartedIfLiveAtRecheck ==
    [][(/\ pc = "recheck"
        /\ (pc' # pc \/ idx' # idx)
        /\ LiveFor(idx, threads)) =>
            /\ Len(thread_start_tracker') = Len(thread_start_tracker) + 1
            /\ thread_start_tracker'[Len(thread_start_tracker')][1].status = "started"]_vars

\* C32: a worker whose stream reaches end of input ends without an error and
\* is no longer alive; the next pass starts a new worker for its entry and
\* reports "started" if the new worker is alive at the re-check.
C32_EofThenRespawnStarted ==
    /\ C32_EofEndsQuietly
    /\ C32_NextPassRespawns
    /\ C32_StartedIfLiveAtRecheck

====
